---- MODULE Spec2Model ----
(***************************************************************************)
(* Rate limiting middleware of fastapi-base-setup                          *)
(* (src/src/middleware/rate_limiting.py, installed by                      *)
(* src/src/middleware/setup.py).                                           *)
(*                                                                         *)
(* Strings the code inspects character by character (paths, client keys,   *)
(* Redis keys, header values) are sequences of one-character strings, so   *)
(* that startswith, split, strip, str() and f-string concatenation are     *)
(* computed as Python computes them.                                       *)
(***************************************************************************)
EXTENDS Integers, Sequences, FiniteSets, TLC

\* Python's None and a present value, for the optional fields of a request
None == <<>>
Some(x) == <<x>>

(***************************************************************************)
(* String literals of the source.                                          *)
(***************************************************************************)
S_rate_limit == <<"r","a","t","e","_","l","i","m","i","t",":">>
S_user == <<"u","s","e","r",":">>
S_ip == <<"i","p",":">>
S_unknown == <<"u","n","k","n","o","w","n">>
S_minute == <<"m","i","n","u","t","e">>
S_hour == <<"h","o","u","r">>
S_colon == <<":">>
P_login == <<"/","a","p","i","/","a","u","t","h","/","l","o","g","i","n">>
P_register == <<"/","a","p","i","/","a","u","t","h","/","r","e","g","i","s","t","e","r">>
P_forgot == <<"/","a","p","i","/","a","u","t","h","/","f","o","r","g","o","t","-","p","a","s","s","w","o","r","d">>
P_users == <<"/","a","p","i","/","u","s","e","r","s","/">>
K_health == <<"/","h","e","a","l","t","h">>
K_metrics == <<"/","m","e","t","r","i","c","s">>
K_docs == <<"/","d","o","c","s">>
K_redoc == <<"/","r","e","d","o","c">>
K_openapi == <<"/","o","p","e","n","a","p","i",".","j","s","o","n">>
K_static == <<"/","s","t","a","t","i","c">>

(***************************************************************************)
(* Python built-ins used by the middleware.                                *)
(***************************************************************************)
\* str.startswith
StartsWith(s, prefix) ==
    /\ Len(prefix) <= Len(s)
    /\ SubSeq(s, 1, Len(prefix)) = prefix

DigitChars == <<"0","1","2","3","4","5","6","7","8","9">>

\* str(int), also the formatting of an int inside an f-string
RECURSIVE IntToStr(_)
IntToStr(n) ==
    IF n < 0 THEN <<"-">> \o IntToStr(0 - n)
    ELSE IF n < 10 THEN <<DigitChars[n + 1]>>
    ELSE IntToStr(n \div 10) \o <<DigitChars[(n % 10) + 1]>>

Max(a, b) == IF a >= b THEN a ELSE b
Min(a, b) == IF a <= b THEN a ELSE b

WhitespaceChars == {" ", "\t"}

\* str.split(",")[0]
RECURSIVE FirstField(_)
FirstField(s) ==
    IF s = <<>> \/ Head(s) = "," THEN <<>>
    ELSE <<Head(s)>> \o FirstField(Tail(s))

RECURSIVE LStrip(_)
LStrip(s) ==
    IF s # <<>> /\ Head(s) \in WhitespaceChars THEN LStrip(Tail(s)) ELSE s

RECURSIVE RStrip(_)
RStrip(s) ==
    IF s # <<>> /\ s[Len(s)] \in WhitespaceChars
    THEN RStrip(SubSeq(s, 1, Len(s) - 1)) ELSE s

\* str.strip
Strip(s) == RStrip(LStrip(s))

(***************************************************************************)
(* Configuration.                                                          *)
(***************************************************************************)
SecondsPerMinute == 60
SecondsPerHour == 3600
MinuteTtl == 60
HourTtl == 3600

\* settings.RATE_LIMIT_REQUESTS_PER_MINUTE / _PER_HOUR: pydantic settings read
\* from the environment; the shipped defaults and one small override.
RATE_LIMIT_REQUESTS_PER_MINUTE == 60
RATE_LIMIT_REQUESTS_PER_HOUR == 1000
SmallPerMinute == 1
SmallPerHour == 2
RateLimitSettings ==
    { [requests_per_minute |-> RATE_LIMIT_REQUESTS_PER_MINUTE,
       requests_per_hour |-> RATE_LIMIT_REQUESTS_PER_HOUR],
      [requests_per_minute |-> SmallPerMinute,
       requests_per_hour |-> SmallPerHour] }

\* self.endpoint_limits, in insertion order
endpoint_limits ==
    << [path |-> P_login,
        limits |-> [requests_per_minute |-> 5, requests_per_hour |-> 20]],
       [path |-> P_register,
        limits |-> [requests_per_minute |-> 3, requests_per_hour |-> 10]],
       [path |-> P_forgot,
        limits |-> [requests_per_minute |-> 2, requests_per_hour |-> 5]],
       [path |-> P_users,
        limits |-> [requests_per_minute |-> 30, requests_per_hour |-> 1000]] >>

skip_paths == <<K_health, K_metrics, K_docs, K_redoc, K_openapi, K_static>>

(***************************************************************************)
(* Pure helpers of RateLimitMiddleware.                                    *)
(***************************************************************************)
\* the skip list compared for equality instead of as prefixes
ShouldSkipRateLimiting_Exact(path) ==
    \E i \in 1..Len(skip_paths) : path = skip_paths[i]

\* _should_skip_rate_limiting: any(path.startswith(p) for p in skip_paths)
ShouldSkipRateLimiting(path) ==
    \E i \in 1..Len(skip_paths) : StartsWith(path, skip_paths[i])

\* every unauthenticated caller keyed by the same constant
GetClientIdentifier_Shared(rq) ==
    IF rq.user_id # None /\ rq.user_id[1] # 0
    THEN S_user \o IntToStr(rq.user_id[1])
    ELSE S_ip \o S_unknown

\* _get_client_identifier. user_id is None or an integer, client_host is None
\* when request.client is None, forwarded_for is None when the header is absent.
GetClientIdentifier(rq) ==
    IF rq.user_id # None /\ rq.user_id[1] # 0
    THEN S_user \o IntToStr(rq.user_id[1])
    ELSE LET client_ip == IF rq.client_host # None THEN rq.client_host[1]
                          ELSE S_unknown
         IN  IF rq.forwarded_for # None /\ rq.forwarded_for[1] # <<>>
             THEN S_ip \o Strip(FirstField(rq.forwarded_for[1]))
             ELSE S_ip \o client_ip

\* for endpoint_path, limits in table.items(): the first entry, from position
\* i on, that path starts with (0 if there is none)
RECURSIVE PrefixMatch(_, _, _)
PrefixMatch(table, path, i) ==
    IF i > Len(table) THEN 0
    ELSE IF StartsWith(path, table[i].path) THEN i
    ELSE PrefixMatch(table, path, i + 1)

\* the body of _get_endpoint_limits for a dictionary of limits given as the
\* sequence of its items in insertion order
EndpointLimitsIn(table, path, defaults) ==
    IF \E i \in 1..Len(table) : table[i].path = path
    THEN table[CHOOSE i \in 1..Len(table) : table[i].path = path].limits
    ELSE IF PrefixMatch(table, path, 1) # 0
    THEN table[PrefixMatch(table, path, 1)].limits
    ELSE defaults

\* _get_endpoint_limits
GetEndpointLimits(path, defaults) ==
    EndpointLimitsIn(endpoint_limits, path, defaults)

\* f"rate_limit:{client_id}:{path}:{kind}:{index}"
RateLimitKey(client_id, path, kind, index) ==
    S_rate_limit \o client_id \o S_colon \o path \o S_colon \o kind
        \o S_colon \o IntToStr(index)

\* the minute key indexed by the hour
MinuteKey_HourIndex(client_id, path, current_time) ==
    RateLimitKey(client_id, path, S_minute, current_time \div SecondsPerHour)

MinuteKey(client_id, path, current_time) ==
    RateLimitKey(client_id, path, S_minute, current_time \div SecondsPerMinute)

HourKey(client_id, path, current_time) ==
    RateLimitKey(client_id, path, S_hour, current_time \div SecondsPerHour)

(***************************************************************************)
(* State.                                                                  *)
(***************************************************************************)
VARIABLES
    now,            \* time.time(), in whole seconds
    redis_up,       \* whether the Redis server answers
    redis_client,   \* self.redis_client: "Redis" or "None"
    defaults,       \* default_requests_per_minute / default_requests_per_hour
    store,          \* Redis: key -> [count, expire_at], and as history
                    \* incr_at, the time of the key's last INCR
    inflight,       \* the dispatch calls in progress, each with its locals
    response,       \* the response dispatch returns in this step, if any;
                    \* request_id is the X-Request-ID header it has when
                    \* it reaches the client
    nreq,           \* requests received so far
    arrivals,       \* history: requests received in the current minute,
                    \* per (caller, path, minute)
    issued,         \* history: increments issued per (caller, path, kind, index)
    outages,        \* history: the times the store has become unreachable
                    \* (1 to start with if it is unreachable after start-up)
    probed,         \* history: a rate-limited request has been received
                    \* since the store last became reachable
    last_call,      \* history: how the most recent call to the store ended,
                    \* "ok" or "failed" ("none" before the first)
    args,           \* the arguments of a helper called on its own, if any
    ret,            \* what that call returned, once it has
    requests,       \* self.requests of an InMemoryRateLimiter
    calls           \* history: the calls of is_allowed made so far

\* the result with the decision changed: "exceeded" at the limit itself
\* (OffByOne), the hour count ignored (MinuteOnly)
ResultWith(allowed, limits, current_time, minute_count, hour_count) ==
    [allowed |-> allowed,
     minute_count |-> minute_count,
     minute_limit |-> limits.requests_per_minute,
     hour_count |-> hour_count,
     hour_limit |-> limits.requests_per_hour,
     reset_time_minute |-> (current_time \div SecondsPerMinute + 1) * SecondsPerMinute,
     reset_time_hour |-> (current_time \div SecondsPerHour + 1) * SecondsPerHour]

RateLimitResult_OffByOne(limits, current_time, minute_count, hour_count) ==
    ResultWith(~(minute_count >= limits.requests_per_minute
                   \/ hour_count >= limits.requests_per_hour),
               limits, current_time, minute_count, hour_count)

RateLimitResult_MinuteOnly(limits, current_time, minute_count, hour_count) ==
    ResultWith(~(minute_count > limits.requests_per_minute),
               limits, current_time, minute_count, hour_count)

\* the reset times computed from a second reading of the clock
RateLimitResult_ClockReadAgain(limits, current_time, minute_count, hour_count) ==
    ResultWith(~(minute_count > limits.requests_per_minute
                   \/ hour_count > limits.requests_per_hour),
               limits, now, minute_count, hour_count)

\* the tail of _check_rate_limits: the decision and the result dictionary
RateLimitResult(limits, current_time, minute_count, hour_count) ==
    LET minute_exceeded == minute_count > limits.requests_per_minute
        hour_exceeded == hour_count > limits.requests_per_hour
    IN  [allowed |-> ~(minute_exceeded \/ hour_exceeded),
         minute_count |-> minute_count,
         minute_limit |-> limits.requests_per_minute,
         hour_count |-> hour_count,
         hour_limit |-> limits.requests_per_hour,
         reset_time_minute |-> (current_time \div SecondsPerMinute + 1) * SecondsPerMinute,
         reset_time_hour |-> (current_time \div SecondsPerHour + 1) * SecondsPerHour]

RateLimitHeaderNames ==
    {"X-RateLimit-Limit-Minute", "X-RateLimit-Remaining-Minute",
     "X-RateLimit-Reset-Minute", "X-RateLimit-Limit-Hour",
     "X-RateLimit-Remaining-Hour", "X-RateLimit-Reset-Hour"}

\* the minute's remaining count computed from the hour's numbers
AddRateLimitHeaders_HourForMinute(r) ==
    [h \in RateLimitHeaderNames |->
        CASE h = "X-RateLimit-Limit-Minute" -> IntToStr(r.minute_limit)
          [] h = "X-RateLimit-Remaining-Minute" ->
                 IntToStr(Max(0, r.hour_limit - r.hour_count))
          [] h = "X-RateLimit-Reset-Minute" -> IntToStr(r.reset_time_minute)
          [] h = "X-RateLimit-Limit-Hour" -> IntToStr(r.hour_limit)
          [] h = "X-RateLimit-Remaining-Hour" ->
                 IntToStr(Max(0, r.hour_limit - r.hour_count))
          [] h = "X-RateLimit-Reset-Hour" -> IntToStr(r.reset_time_hour)]

\* _add_rate_limit_headers: the headers set on the downstream response
AddRateLimitHeaders(r) ==
    [h \in RateLimitHeaderNames |->
        CASE h = "X-RateLimit-Limit-Minute" -> IntToStr(r.minute_limit)
          [] h = "X-RateLimit-Remaining-Minute" ->
                 IntToStr(Max(0, r.minute_limit - r.minute_count))
          [] h = "X-RateLimit-Reset-Minute" -> IntToStr(r.reset_time_minute)
          [] h = "X-RateLimit-Limit-Hour" -> IntToStr(r.hour_limit)
          [] h = "X-RateLimit-Remaining-Hour" ->
                 IntToStr(Max(0, r.hour_limit - r.hour_count))
          [] h = "X-RateLimit-Reset-Hour" -> IntToStr(r.reset_time_hour)]

\* retry_after as the later of the two resets
RetryAfter_Max(r, current_time) ==
    Max(r.reset_time_minute - current_time, r.reset_time_hour - current_time)

\* retry_after taken from the hour window
RetryAfter_Hour(r, current_time) == r.reset_time_hour - current_time

\* retry_after of _create_rate_limit_response, current_time read when the
\* response is built
RetryAfter(r, current_time) ==
    Min(r.reset_time_minute - current_time, r.reset_time_hour - current_time)

\* the Retry-After header computed apart from the body's retry_after
RateLimitResponseHeaders_HourRetry(r, current_time) ==
    [h \in RateLimitHeaderNames \cup {"Retry-After"} |->
        IF h = "Retry-After" THEN IntToStr(RetryAfter_Hour(r, current_time))
        ELSE AddRateLimitHeaders(r)[h]]

\* headers of _create_rate_limit_response
RateLimitResponseHeaders(r, current_time) ==
    [h \in RateLimitHeaderNames \cup {"Retry-After"} |->
        IF h = "Retry-After" THEN IntToStr(RetryAfter(r, current_time))
        ELSE AddRateLimitHeaders(r)[h]]

NoHeaders == [h \in {} |-> <<>>]

\* content of the JSONResponse of _create_rate_limit_response
RateLimitResponseBody(retry_after) ==
    [detail |-> "Rate limit exceeded",
     message |-> "Too many requests. Please try again later.",
     retry_after |-> retry_after]

\* the body of a response the middleware did not build
NoBody == [detail |-> "", message |-> "", retry_after |-> 0]

(***************************************************************************)
(* Environment of the model: who sends what, and when the clock is read.   *)
(***************************************************************************)
H_a == <<"1","0",".","0",".","0",".","1">>
H_b == <<"1","0",".","0",".","0",".","2">>
P_healthz == <<"/","h","e","a","l","t","h","z">>
P_items == <<"/","a","p","i","/","i","t","e","m","s">>
T_me == <<"/","a","p","i","/","u","s","e","r","s","/","m","e">>
P_user7 == <<"/","a","p","i","/","u","s","e","r","s","/","7">>

Request(user_id, client_host, forwarded_for, path) ==
    [user_id |-> user_id, client_host |-> client_host,
     forwarded_for |-> forwarded_for, path |-> path]

\* who a request comes from: everything in it that identifies the sender
Caller(rq) == <<rq.user_id, rq.client_host, rq.forwarded_for>>

Requests ==
    {Request(None, Some(h), None, P_items) : h \in {H_a, H_b}}
        \cup {Request(None, Some(H_a), None, P_healthz)}

OutageRequests ==
    {Request(None, Some(H_a), None, p) : p \in {P_items, P_healthz}}

LoginRequests == {Request(None, Some(H_a), None, P_login)}

\* two routes under the prefix "/api/users/" of endpoint_limits, and one
\* under no prefix of it
UsersRequests ==
    {Request(None, Some(H_a), None, p) : p \in {P_user7, T_me, P_items}}

MaxRequests == 3
MaxLoginRequests == 6
MaxOutageRequests == 2
MaxUsersRequests == 2
MaxHourRequests == 3
HourlyPerMinute == 1
HourlyPerHour == 1
HourRequests == {Request(None, Some(H_a), None, P_items)}
MaxInFlight == 2
MaxOutages == 1
StartTime == 59 * SecondsPerMinute - 1
MaxTime == 3600
\* the seconds of a minute at which the model lets the clock be read
ObservedSeconds == {0, SecondsPerMinute - 1}
Instants ==
    {t \in StartTime..MaxTime : (t % SecondsPerMinute) \in ObservedSeconds}

vars == <<now, redis_up, redis_client, defaults, store, inflight, response,
          nreq, arrivals, issued, outages, probed, last_call, args, ret,
          requests, calls>>

middleware == <<now, redis_up, redis_client, defaults, store, inflight,
                response, nreq, arrivals, issued, outages, probed, last_call>>

\* the InMemoryRateLimiter, which the middleware never uses
limiter == <<requests, calls>>

\* the helper call examined on its own, and the limiter
helper == <<args, ret, limiter>>

NoLimits == [requests_per_minute |-> 0, requests_per_hour |-> 0]

NoResult == RateLimitResult(NoLimits, 0, 0, 0)

NoRequest == Request(None, None, None, <<>>)

\* the locals of a dispatch call, and its history: ordinal (the request's rank
\* among its caller's requests to its path in its minute), hour_ordinal (the
\* rank of its hour increment), saw_up (the store was reachable at some time
\* while the request was handled), after_probe (the store was reachable when
\* the request arrived and an earlier rate-limited request had arrived since
\* it became so), up_at_arrival (the store was reachable when the request
\* arrived), prior_call (last_call when the request arrived)
NoFrame ==
    [pc |-> "hour", rq |-> NoRequest, client_id |-> <<>>,
     current_time |-> 0, limits |-> NoLimits, minute_count |-> 0,
     result |-> NoResult, ordinal |-> 0, hour_ordinal |-> 0, saw_up |-> FALSE,
     after_probe |-> FALSE, up_at_arrival |-> FALSE, prior_call |-> "none"]

NoResponse ==
    [rq |-> NoRequest, status |-> 0, headers |-> NoHeaders, body |-> NoBody,
     request_id |-> None, called_next |-> FALSE, retry_after |-> 0,
     evaluated |-> FALSE, result |-> NoResult,
     current_time |-> 0, sent_at |-> 0, ordinal |-> 0, hour_ordinal |-> 0,
     saw_up |-> FALSE, after_probe |-> FALSE, up_at_arrival |-> FALSE,
     prior_call |-> "none", escaped |-> FALSE]

Count(f, k) == IF k \in DOMAIN f THEN f[k] ELSE 0

Bump(f, k) ==
    [x \in DOMAIN f \cup {k} |-> IF x = k THEN Count(f, k) + 1 ELSE f[x]]

(***************************************************************************)
(* The counter store.                                                      *)
(***************************************************************************)
Live(key) == key \in DOMAIN store /\ store[key].expire_at > now

\* INCR as a read followed by a write, the write of a caller that runs beside
\* another dispatch overwritten by that one's
PipelineValue_LostUpdate(key) ==
    IF Live(key) THEN store[key].count + (IF inflight = {} THEN 1 ELSE 0)
    ELSE 1

\* INCR skipped for a counter that is already over the small minute limit:
\* the requests that are rejected leave the counter as it is
PipelineValue_RejectedNotCounted(key) ==
    IF Live(key)
    THEN (IF store[key].count > SmallPerMinute THEN store[key].count
          ELSE store[key].count + 1)
    ELSE 1

\* INCR key of the pipeline: the value it returns
PipelineValue(key) == IF Live(key) THEN store[key].count + 1 ELSE 1

\* INCR key, and EXPIRE key ttl only when the INCR created the key
PipelineStore_ExpireOnCreate(key, ttl) ==
    [k \in DOMAIN store \cup {key} |->
        IF k = key
        THEN [count |-> PipelineValue(key),
              expire_at |-> IF Live(key) THEN store[key].expire_at
                            ELSE now + ttl,
              incr_at |-> now]
        ELSE store[k]]

\* INCR key; EXPIRE key ttl, executed as one MULTI/EXEC transaction
PipelineStore(key, ttl) ==
    [k \in DOMAIN store \cup {key} |->
        IF k = key
        THEN [count |-> PipelineValue(key), expire_at |-> now + ttl,
              incr_at |-> now]
        ELSE store[k]]

\* _increment_counter without its except clause
IncrementCounter_NoExcept(key, ttl) ==
    IF redis_client = "None"
    THEN [value |-> 0, store |-> store, raised |-> FALSE]
    ELSE IF redis_up
    THEN [value |-> PipelineValue(key), store |-> PipelineStore(key, ttl),
          raised |-> FALSE]
    ELSE [value |-> 0, store |-> store, raised |-> TRUE]

\* _increment_counter: the value returned, the store afterwards, and whether
\* an exception leaves the method. With the server unreachable pipe.execute()
\* raises ConnectionError, a RedisError, which the except clause turns into 0.
IncrementCounter(key, ttl) ==
    IF redis_client = "None"
    THEN [value |-> 0, store |-> store, raised |-> FALSE]
    ELSE IF redis_up
    THEN [value |-> PipelineValue(key), store |-> PipelineStore(key, ttl),
          raised |-> FALSE]
    ELSE [value |-> 0, store |-> store, raised |-> FALSE]

\* _create_redis_client / the try block of setup_middleware: client.ping()
CreateRedisClient(up) == IF up THEN "Redis" ELSE "None"

\* the client RateLimitMiddleware.__init__ ends with, per set-up function:
\* setup_middleware pings and passes None on failure, and __init__ then calls
\* _create_redis_client itself; setup_production_middleware passes a client
\* it never pinged.
InitRedisClient(app_env, up_at_setup, up_at_init) ==
    IF app_env = "prod" THEN "Redis"
    ELSE LET passed == CreateRedisClient(up_at_setup)
         IN  IF passed # "None" THEN passed ELSE CreateRedisClient(up_at_init)

\* how the last ping of the set-up ended: setup_middleware pings, and
\* __init__ pings again if that failed; setup_production_middleware and the
\* __init__ it leads to make no call
InitLastCall(app_env, up_at_setup, up_at_init) ==
    IF app_env = "prod" THEN "none"
    ELSE IF up_at_setup \/ up_at_init THEN "ok" ELSE "failed"

\* how a call of pipe.execute() ends
CallOutcome == IF redis_up THEN "ok" ELSE "failed"

AppEnvs == {"staging", "prod"}

\* app.add_middleware of Starlette: user_middleware.insert(0, ...), so the
\* stack lists the middleware added last first, and that one is the outermost
AddMiddleware(stack, m) == <<m>> \o stack

\* setup_middleware and setup_production_middleware: CORS, then logging, then
\* rate limiting
MiddlewareStack ==
    AddMiddleware(
        AddMiddleware(AddMiddleware(<<>>, "CORSMiddleware"),
                      "LoggingMiddleware"),
        "RateLimitMiddleware")

\* m wraps n: a response n returns passes through m on its way to the client
Wraps(m, n) ==
    \E i, j \in 1..Len(MiddlewareStack) :
        /\ MiddlewareStack[i] = m /\ MiddlewareStack[j] = n
        /\ i < j

\* str(uuid.uuid4()) of LoggingMiddleware.dispatch: a value no other request
\* gets, here the request's place in the run
RequestId(rq, current_time, ordinal) ==
    <<Caller(rq), rq.path, current_time \div SecondsPerMinute, ordinal>>

(***************************************************************************)
(* Responses.                                                              *)
(***************************************************************************)
\* return await call_next(request): the application's response, untouched
Forwarded(rq, ordinal) ==
    [NoResponse EXCEPT !.rq = rq, !.status = 200, !.called_next = TRUE,
                       !.request_id = Some(RequestId(rq, now, ordinal)),
                       !.current_time = now, !.sent_at = now,
                       !.ordinal = ordinal, !.saw_up = redis_up,
                       !.after_probe = (redis_up /\ probed),
                       !.up_at_arrival = redis_up, !.prior_call = last_call]

\* an exception that leaves dispatch
Escaped(f) ==
    [NoResponse EXCEPT !.rq = f.rq, !.status = 500,
                       !.current_time = f.current_time, !.sent_at = now,
                       !.ordinal = f.ordinal, !.saw_up = f.saw_up,
                       !.after_probe = f.after_probe,
                       !.up_at_arrival = f.up_at_arrival,
                       !.prior_call = f.prior_call, !.escaped = TRUE]

\* dispatch, lines 99-108, for a frame whose result is computed
Answer(f) ==
    LET base == [NoResponse EXCEPT !.rq = f.rq,
                     !.evaluated = TRUE, !.result = f.result,
                     !.current_time = f.current_time, !.sent_at = now,
                     !.ordinal = f.ordinal, !.hour_ordinal = f.hour_ordinal,
                     !.saw_up = f.saw_up, !.after_probe = f.after_probe,
                     !.up_at_arrival = f.up_at_arrival,
                     !.prior_call = f.prior_call]
    IN  IF ~f.result.allowed
        THEN [base EXCEPT !.status = 429,
                          !.request_id =
                              IF Wraps("LoggingMiddleware", "RateLimitMiddleware")
                              THEN Some(RequestId(f.rq, f.current_time,
                                                  f.ordinal))
                              ELSE None,
                          !.retry_after = RetryAfter(f.result, now),
                          !.body = RateLimitResponseBody(
                                       RetryAfter(f.result, now)),
                          !.headers = RateLimitResponseHeaders(f.result, now)]
        ELSE [base EXCEPT !.status = 200, !.called_next = TRUE,
                          !.request_id = Some(RequestId(f.rq, f.current_time,
                                                        f.ordinal)),
                          !.headers = AddRateLimitHeaders(f.result)]

(***************************************************************************)
(* Initial state: the application as built by main.py, no request yet.     *)
(***************************************************************************)
InitMiddlewareAt(t, settings) ==
    /\ now = t
    /\ \E app_env \in AppEnvs, up_at_setup \in BOOLEAN, up_at_init \in BOOLEAN :
           /\ redis_client = InitRedisClient(app_env, up_at_setup, up_at_init)
           /\ last_call = InitLastCall(app_env, up_at_setup, up_at_init)
           /\ redis_up = up_at_init
    /\ defaults \in settings
    /\ store = [k \in {} |-> [count |-> 0, expire_at |-> 0, incr_at |-> 0]]
    /\ inflight = {}
    /\ response = NoResponse
    /\ nreq = 0
    /\ arrivals = [k \in {} |-> 0]
    /\ issued = [k \in {} |-> 0]
    /\ outages = IF redis_up THEN 0 ELSE 1
    /\ probed = FALSE

InitMiddleware == InitMiddlewareAt(StartTime, RateLimitSettings)

\* InMemoryRateLimiter.__init__: self.requests = {}
LimiterUnused ==
    /\ requests = [c \in {} |-> <<>>]
    /\ calls = <<>>

Init ==
    /\ InitMiddleware
    /\ args = None
    /\ ret = None
    /\ LimiterUnused

(***************************************************************************)
(* dispatch, in the steps other requests and the clock can interleave with.*)
(***************************************************************************)
\* dispatch up to and including the minute increment of _check_rate_limits
Dispatch(rq, budget) ==
    /\ nreq < budget
    /\ Cardinality(inflight) < MaxInFlight
    /\ nreq' = nreq + 1
    /\ LET akey == <<Caller(rq), rq.path, now \div SecondsPerMinute>>
           ordinal == Count(arrivals, akey) + 1
       IN  /\ arrivals' = Bump(arrivals, akey)
           /\ IF redis_client = "None"
              THEN /\ response' = Forwarded(rq, ordinal)
                   /\ probed' = (probed \/ (redis_up /\ ~ShouldSkipRateLimiting(rq.path)))
                   /\ UNCHANGED <<store, inflight, issued, last_call>>
              ELSE IF ShouldSkipRateLimiting(rq.path)
              THEN /\ response' = Forwarded(rq, ordinal)
                   /\ UNCHANGED <<store, inflight, issued, probed, last_call>>
              ELSE LET client_id == GetClientIdentifier(rq)
                       limits == GetEndpointLimits(rq.path, defaults)
                       current_time == now
                       minute == IncrementCounter(
                                     MinuteKey(client_id, rq.path, current_time),
                                     MinuteTtl)
                       f == [NoFrame EXCEPT
                                !.rq = rq,
                                !.client_id = client_id,
                                !.current_time = current_time,
                                !.limits = limits,
                                !.minute_count = minute.value,
                                !.ordinal = ordinal,
                                !.saw_up = redis_up,
                                !.after_probe = (redis_up /\ probed),
                                !.up_at_arrival = redis_up,
                                !.prior_call = last_call]
                   IN  /\ probed' = (probed \/ redis_up)
                       /\ last_call' = CallOutcome
                       /\ store' = minute.store
                       /\ issued' = Bump(issued,
                              <<Caller(rq), rq.path, "minute",
                                current_time \div SecondsPerMinute>>)
                       /\ IF minute.raised
                          THEN /\ response' = Escaped(f)
                               /\ UNCHANGED inflight
                          ELSE /\ inflight' = inflight \cup {f}
                               /\ response' = NoResponse
    /\ UNCHANGED <<now, redis_up, redis_client, defaults, outages, helper>>

\* the hour increment and the decision of _check_rate_limits
CheckHour(f) ==
    /\ f.pc = "hour"
    /\ LET hour == IncrementCounter(
                       HourKey(f.client_id, f.rq.path, f.current_time), HourTtl)
           ikey == <<Caller(f.rq), f.rq.path, "hour",
                     f.current_time \div SecondsPerHour>>
           g == [f EXCEPT !.pc = "reject",
                          !.result = RateLimitResult(f.limits, f.current_time,
                                                     f.minute_count, hour.value),
                          !.hour_ordinal = Count(issued, ikey) + 1]
       IN  /\ store' = hour.store
           /\ last_call' = CallOutcome
           /\ issued' = Bump(issued, ikey)
           /\ IF hour.raised
              THEN /\ response' = Escaped(f)
                   /\ inflight' = inflight \ {f}
              ELSE IF g.result.allowed
              THEN \* call_next, then _add_rate_limit_headers
                   /\ response' = Answer(g)
                   /\ inflight' = inflight \ {f}
              ELSE /\ inflight' = (inflight \ {f}) \cup {g}
                   /\ response' = NoResponse
    /\ UNCHANGED <<now, redis_up, redis_client, defaults, nreq, arrivals,
                   outages, probed, helper>>

\* return self._create_rate_limit_response(rate_limit_result), which reads
\* the clock again
Reject(f) ==
    /\ f.pc = "reject"
    /\ response' = Answer(f)
    /\ inflight' = inflight \ {f}
    /\ UNCHANGED <<now, redis_up, redis_client, defaults, store, nreq,
                   arrivals, issued, outages, probed, last_call, helper>>

(***************************************************************************)
(* Environment: the clock and the reachability of the store.               *)
(***************************************************************************)
ThisMinute(f, t) ==
    [k \in {x \in DOMAIN f : x[Len(x)] = t \div SecondsPerMinute} |-> f[k]]

\* the clock advances to instant t; Redis drops the keys whose TTL has run out
Tick(t) ==
    /\ t > now
    /\ now' = t
    /\ store' = [k \in {x \in DOMAIN store : store[x].expire_at > t} |-> store[k]]
    /\ arrivals' = ThisMinute(arrivals, t)
    /\ response' = NoResponse
    /\ UNCHANGED <<redis_up, redis_client, defaults, inflight, nreq, issued,
                   outages, probed, last_call, helper>>

StoreDown ==
    /\ redis_up
    /\ outages < MaxOutages
    /\ redis_up' = FALSE
    /\ outages' = outages + 1
    /\ probed' = FALSE
    /\ response' = NoResponse
    /\ UNCHANGED <<now, redis_client, defaults, store, inflight, nreq,
                   arrivals, issued, last_call, helper>>

StoreUp ==
    /\ ~redis_up
    /\ redis_up' = TRUE
    /\ probed' = FALSE
    /\ inflight' = {[f EXCEPT !.saw_up = TRUE] : f \in inflight}
    /\ response' = NoResponse
    /\ UNCHANGED <<now, redis_client, defaults, store, nreq, arrivals, issued,
                   outages, last_call, helper>>

\* two callers; the store stays as reachable as it was when the first
\* request arrived
Next ==
    \/ \E rq \in Requests : Dispatch(rq, MaxRequests)
    \/ \E f \in inflight : CheckHour(f)
    \/ \E f \in inflight : Reject(f)
    \/ \E t \in Instants : Tick(t)

Spec == Init /\ [][Next]_vars

\* one caller; the store becomes unreachable and reachable again
NextOutage ==
    \/ \E rq \in OutageRequests : Dispatch(rq, MaxOutageRequests)
    \/ \E f \in inflight : CheckHour(f)
    \/ \E f \in inflight : Reject(f)
    \/ \E t \in Instants : Tick(t)
    \/ StoreDown
    \/ StoreUp

SpecOutage == Init /\ [][NextOutage]_vars

\* one caller and the login route only, the store's reachability as it was
\* when the application started
NextLogin ==
    \/ \E rq \in LoginRequests : Dispatch(rq, MaxLoginRequests)
    \/ \E f \in inflight : CheckHour(f)
    \/ \E f \in inflight : Reject(f)
    \/ \E t \in Instants : Tick(t)

SpecLogin == Init /\ [][NextLogin]_vars

\* one caller and one route over the last three minutes of an hour, the hour
\* limit no higher than the minute limit
HourStart == StartTime - SecondsPerMinute
HourInstants ==
    {t \in HourStart..(StartTime + 1) : (t % SecondsPerMinute) \in ObservedSeconds}

HourSettings ==
    { [requests_per_minute |-> HourlyPerMinute,
       requests_per_hour |-> HourlyPerHour] }

InitHour ==
    /\ InitMiddlewareAt(HourStart, HourSettings)
    /\ args = None
    /\ ret = None
    /\ LimiterUnused

NextHour ==
    \/ \E rq \in HourRequests : Dispatch(rq, MaxHourRequests)
    \/ \E f \in inflight : CheckHour(f)
    \/ \E f \in inflight : Reject(f)
    \/ \E t \in HourInstants : Tick(t)

SpecHour == InitHour /\ [][NextHour]_vars

\* one caller; two of its routes resolve to one entry of endpoint_limits
NextUsers ==
    \/ \E rq \in UsersRequests : Dispatch(rq, MaxUsersRequests)
    \/ \E f \in inflight : CheckHour(f)
    \/ \E f \in inflight : Reject(f)
    \/ \E t \in Instants : Tick(t)

SpecUsers == Init /\ [][NextUsers]_vars

(***************************************************************************)
(* InMemoryRateLimiter, called on its own.                                 *)
(***************************************************************************)
MaxCalls == 4
MaxLimit == 2
MaxWindow == 2
MaxElapsed == 3

LimiterClients == {S_ip \o H_a, S_ip \o H_b}

\* is_allowed is called with the same limit and window throughout
LimiterInputs == [limit : 0..MaxLimit, window : 1..MaxWindow]

\* [t for t in times if t > window_start]
CleanOld(times, window_start) ==
    SelectSeq(times, LAMBDA t : t > window_start)

\* the limit test with > for >=
LimitReached_OffByOne(kept, limit) == Len(kept) > limit

\* if len(self.requests[client_id]) >= limit
LimitReached(kept, limit) == Len(kept) >= limit

InitLimiter ==
    /\ InitMiddleware
    /\ redis_client = "Redis" /\ redis_up /\ last_call = "none"
    /\ defaults.requests_per_minute = RATE_LIMIT_REQUESTS_PER_MINUTE
    /\ args \in LimiterInputs
    /\ ret = None
    /\ LimiterUnused

\* InMemoryRateLimiter.is_allowed(client_id, args.limit, args.window)
IsAllowed(client_id) ==
    /\ Len(calls) < MaxCalls
    /\ LET current_time == now
           window_start == current_time - args.window
           kept == IF client_id \in DOMAIN requests
                   THEN CleanOld(requests[client_id], window_start)
                   ELSE <<>>
           allowed == ~LimitReached(kept, args.limit)
       IN  /\ requests' =
                  [c \in DOMAIN requests \cup {client_id} |->
                      IF c # client_id THEN requests[c]
                      ELSE IF allowed THEN Append(kept, current_time)
                      ELSE kept]
           /\ ret' = Some(allowed)
           /\ calls' = Append(calls, [client_id |-> client_id,
                                      time |-> current_time,
                                      allowed |-> allowed])
    /\ UNCHANGED <<middleware, args>>

\* time.time() advances
LimiterTick ==
    /\ now < StartTime + MaxElapsed
    /\ now' = now + 1
    /\ UNCHANGED <<redis_up, redis_client, defaults, store, inflight,
                   response, nreq, arrivals, issued, outages, probed,
                   last_call, helper>>

NextLimiter ==
    \/ \E c \in LimiterClients : IsAllowed(c)
    \/ LimiterTick

SpecLimiter == InitLimiter /\ [][NextLimiter]_vars

(***************************************************************************)
(* The pure helpers called on their own.                                   *)
(***************************************************************************)
T_api == <<"/","a","p","i","/">>
P_other == <<"/","o","t","h","e","r">>

\* dictionaries of limits: that of the source, and those of at most
\* MaxTableLen items over three keys of which each is a prefix of the next
MaxTableLen == 2
TableEntries ==
    { [path |-> T_api,
       limits |-> [requests_per_minute |-> 10, requests_per_hour |-> 100]],
      [path |-> P_users,
       limits |-> [requests_per_minute |-> 30, requests_per_hour |-> 1000]],
      [path |-> T_me,
       limits |-> [requests_per_minute |-> 7, requests_per_hour |-> 70]] }

Tables ==
    {endpoint_limits} \cup
    UNION { {t \in [1..n -> TableEntries] :
                \A i, j \in 1..n : t[i].path = t[j].path => i = j}
            : n \in 0..MaxTableLen }

ResolvePaths == {P_items, P_user7, T_me, P_users, P_login, P_other}

ResolveInputs == [table : Tables, path : ResolvePaths]

InitResolve ==
    /\ InitMiddleware
    /\ args \in ResolveInputs
    /\ ret = None
    /\ LimiterUnused

\* self._get_endpoint_limits(path) with self.endpoint_limits = table
Resolve ==
    /\ ret = None
    /\ ret' = Some(EndpointLimitsIn(args.table, args.path, defaults))
    /\ UNCHANGED <<middleware, args, limiter>>

SpecResolve == InitResolve /\ [][Resolve]_vars

\* values of the X-Forwarded-For header: empty, one address, a chain, a chain
\* with blanks around its first address
X_one == <<"1","0",".","0",".","0",".","9">>
X_chain == <<"1","0",".","0",".","0",".","9",","," ","1","0",".","0",".","0",".","1">>
X_blanks == <<" ","1","0",".","0",".","0",".","9"," ",",","1","0",".","0",".","0",".","1">>
ForwardedForValues == {<<>>, X_one, X_chain, X_blanks}

\* values of request.state.user_id
UserIds == {0, 7, 42}

IdentifyInputs ==
    { Request(u, h, x, P_items) :
          u \in {None} \cup {Some(i) : i \in UserIds},
          h \in {None, Some(H_a), Some(H_b)},
          x \in {None} \cup {Some(v) : v \in ForwardedForValues} }

InitIdentify ==
    /\ InitMiddleware
    /\ args \in IdentifyInputs
    /\ ret = None
    /\ LimiterUnused

\* self._get_client_identifier(request)
Identify ==
    /\ ret = None
    /\ ret' = Some(GetClientIdentifier(args))
    /\ UNCHANGED <<middleware, args, limiter>>

SpecIdentify == InitIdentify /\ [][Identify]_vars

\* an X-Forwarded-For value and URL paths with ':' in them
X_colon == <<"1","0",".","0",".","0",".","9",":","/","a">>
P_b == <<"/","b">>
P_a_b == <<"/","a",":","/","b">>

KeyRequests ==
    { Request(None, Some(H_a), x, p) :
          x \in {None, Some(X_one), Some(X_colon)},
          p \in {P_items, P_b, P_a_b} }

KeyInputs == [a : KeyRequests, b : KeyRequests, kind : {"minute", "hour"}]

InitKeys ==
    /\ InitMiddleware
    /\ args \in KeyInputs
    /\ ret = None
    /\ LimiterUnused

\* the key of _check_rate_limits for a request: minute_key or hour_key
KeyFor(rq, kind) ==
    IF kind = "minute"
    THEN MinuteKey(GetClientIdentifier(rq), rq.path, now)
    ELSE HourKey(GetClientIdentifier(rq), rq.path, now)

\* the keys _check_rate_limits builds for two requests at the same time
BuildKeys ==
    /\ ret = None
    /\ ret' = Some(<<KeyFor(args.a, args.kind), KeyFor(args.b, args.kind)>>)
    /\ UNCHANGED <<middleware, args, limiter>>

SpecKeys == InitKeys /\ [][BuildKeys]_vars

(***************************************************************************)
(* Claims.                                                                 *)
(***************************************************************************)
\* the store was reachable for every increment issued so far
StoreReliable == redis_client = "Redis" /\ outages = 0

\* C1: with the store reachable and the hour limit not reached, of the
\* requests evaluated for one caller and path inside one minute window the
\* 1st through Nth (N = the policy's requests_per_minute) are allowed and
\* every later one, the (N+1)th first, is not.
C1_NthAllowedNextRejected ==
    (response.evaluated /\ StoreReliable
        /\ response.result.hour_count <= response.result.hour_limit)
    => /\ response.result.allowed = (response.ordinal <= response.result.minute_limit)
       /\ (response.status = 200) = (response.ordinal <= response.result.minute_limit)

C1_Witness ==
    /\ response.evaluated /\ StoreReliable
    /\ response.result.hour_count <= response.result.hour_limit
    /\ response.ordinal = response.result.minute_limit + 1
    /\ response.status = 429

\* C2: an evaluated request is allowed (and forwarded) exactly when its
\* post-increment minute count is at most requests_per_minute and its
\* post-increment hour count is at most requests_per_hour.
C2_AllowedIffBothWithin ==
    response.evaluated
    => /\ response.result.allowed =
              (/\ response.result.minute_count <= response.result.minute_limit
               /\ response.result.hour_count <= response.result.hour_limit)
       /\ (response.status = 200) = response.result.allowed
       /\ (response.status = 429) = ~response.result.allowed
       /\ response.result.minute_limit =
              GetEndpointLimits(response.rq.path, defaults).requests_per_minute
       /\ response.result.hour_limit =
              GetEndpointLimits(response.rq.path, defaults).requests_per_hour

\* the (requests_per_hour + 1)th request of its hour, within the minute limit
C2_Witness ==
    /\ response.evaluated
    /\ response.status = 429
    /\ response.result.minute_count <= response.result.minute_limit
    /\ response.result.hour_count = response.result.hour_limit + 1

\* C3: under the login policy (5 per minute, 20 per hour), with the store
\* reachable and the hour limit not reached, the first 5 requests of one
\* caller to /api/auth/login in a minute window are forwarded and the 6th is
\* answered 429 with retry_after = the seconds from the moment the response is
\* built to the minute boundary that ends the window.
C3_LoginFiveThenRetryAfter ==
    (/\ response.evaluated /\ StoreReliable
     /\ response.rq.path = P_login
     /\ response.result.hour_count <= 20)
    => /\ response.result.minute_limit = 5
       /\ response.result.hour_limit = 20
       /\ response.ordinal <= 5 => response.status = 200
       /\ response.ordinal = 6 =>
              /\ response.status = 429
              /\ response.retry_after =
                     (response.current_time \div 60 + 1) * 60 - response.sent_at
              /\ response.headers["Retry-After"] = IntToStr(response.retry_after)

\* the 6th request, answered within its window one second before the boundary
C3_Witness ==
    /\ response.evaluated /\ StoreReliable
    /\ response.rq.path = P_login
    /\ response.ordinal = 6
    /\ response.status = 429
    /\ response.sent_at \div 60 = response.current_time \div 60
    /\ response.retry_after = 60 - (response.sent_at % 60)
    /\ response.retry_after = 1

\* C4: with the store reachable, the counts a request observes are its own
\* caller's: minute_count is the request's rank among that caller's requests
\* to the path in the minute, hour_count the rank of its hour increment among
\* that caller's, whatever other callers send to the same path meanwhile; so
\* the decision depends on the caller's own traffic only.
C4_CountersPerClient ==
    (response.evaluated /\ StoreReliable)
    => /\ response.result.minute_count = response.ordinal
       /\ response.result.hour_count = response.hour_ordinal
       /\ (response.status = 200) =
              (/\ response.ordinal <= response.result.minute_limit
               /\ response.hour_ordinal <= response.result.hour_limit)

\* a caller's first request is allowed although another caller has used up
\* the limit of the same path in the same minute
C4_Witness ==
    /\ response.evaluated /\ StoreReliable
    /\ response.status = 200
    /\ response.ordinal = 1
    /\ response.current_time \div SecondsPerMinute = now \div SecondsPerMinute
    /\ \E k \in DOMAIN arrivals :
           /\ k[1] # Caller(response.rq)
           /\ k[2] = response.rq.path
           /\ k[3] = response.current_time \div SecondsPerMinute
           /\ arrivals[k] >= response.result.minute_limit

\* C5: with the store reachable, the first request of a caller and path in a
\* minute window observes minute_count = 1, whatever the earlier minutes
\* counted, while its hour_count continues the hour's count: it is the rank of
\* its hour increment among those issued for the pair in the hour.
C5_MinuteResetsHourContinues ==
    (response.evaluated /\ StoreReliable /\ response.ordinal = 1)
    => /\ response.result.minute_count = 1
       /\ response.result.hour_count = response.hour_ordinal

\* the first request after a minute boundary inside the hour, with requests
\* of the pair counted in an earlier minute of the same hour
C5_Witness ==
    /\ response.evaluated /\ StoreReliable /\ response.ordinal = 1
    /\ (response.current_time \div SecondsPerMinute) % 60 # 0
    /\ response.result.minute_count = 1
    /\ response.result.hour_count >= 2
    /\ \E k \in DOMAIN issued :
           /\ k[1] = Caller(response.rq) /\ k[2] = response.rq.path
           /\ k[3] = "minute"
           /\ k[4] < response.current_time \div SecondsPerMinute
           /\ k[4] \div 60 = response.current_time \div SecondsPerHour
           /\ issued[k] >= 1

\* C6: a request handled entirely while the store is unreachable is forwarded
\* to the application, whether the middleware holds a client or was built
\* without one; and no response is ever an exception that left dispatch.
C6_FailOpen ==
    /\ ~response.escaped
    /\ (response.status # 0 /\ ~response.saw_up) => response.status = 200

\* a request over its minute limit, evaluated by a middleware that holds a
\* client while the store is unreachable, and forwarded
C6_Witness ==
    /\ redis_client = "Redis"
    /\ response.evaluated /\ ~response.saw_up
    /\ response.status = 200
    /\ response.ordinal > response.result.minute_limit
    /\ response.result.minute_count = 0

\* C7 (the claim as stated): a rate-limited request that arrives while the
\* store is reachable, after an earlier rate-limited request has arrived since
\* the store became reachable, is counted in the store, and rejected when its
\* count is over the limit - also when the store was unreachable at start-up.
C7_EnforcementResumes ==
    (/\ response.status # 0
     /\ response.after_probe
     /\ ~ShouldSkipRateLimiting(response.rq.path))
    => /\ response.evaluated
       /\ response.result.minute_count >= 1
       /\ (response.result.minute_count > response.result.minute_limit
              => response.status = 429)

C8_ExemptPrefixes == {K_health, K_metrics, K_docs, K_redoc, K_openapi, K_static}

C8_IsExempt(path) == \E p \in C8_ExemptPrefixes : StartsWith(path, p)

C9_HealthzLimited ==
    (/\ StoreReliable
     /\ response.status # 0
     /\ response.rq.path = P_healthz
     /\ response.ordinal >
            GetEndpointLimits(P_healthz, defaults).requests_per_minute)
    => response.status = 429

DigitValue(c) == CHOOSE d \in 0..9 : DigitChars[d + 1] = c

\* int(s) for a string of decimal digits
RECURSIVE ParseNat(_)
ParseNat(s) ==
    IF s = <<>> THEN 0
    ELSE 10 * ParseNat(SubSeq(s, 1, Len(s) - 1)) + DigitValue(s[Len(s)])

IsNatString(s) ==
    /\ s # <<>>
    /\ \A i \in 1..Len(s) : \E d \in 1..10 : DigitChars[d] = s[i]

\* C10: on every forwarded response of an evaluated request the header
\* X-RateLimit-Remaining-Minute is a string of decimal digits whose value is
\* max(0, minute_limit - minute_count).
C10_RemainingMinute ==
    (response.evaluated /\ response.status = 200)
    => /\ IsNatString(response.headers["X-RateLimit-Remaining-Minute"])
       /\ ParseNat(response.headers["X-RateLimit-Remaining-Minute"]) =
              Max(0, response.result.minute_limit - response.result.minute_count)

\* a forwarded response with requests left in the minute, one with none left
C10_Witness ==
    /\ response.evaluated /\ response.status = 200
    /\ StoreReliable
    /\ response.result.minute_count >= 1
    /\ response.result.hour_count > response.result.minute_count
    /\ ParseNat(response.headers["X-RateLimit-Remaining-Minute"]) =
           response.result.minute_limit - response.result.minute_count

\* C11: whenever an evaluation yields allowed = false, call_next is not
\* invoked for the request and the response has status 429, the JSON body
\* {detail: "Rate limit exceeded", message, retry_after}, the six
\* X-RateLimit-* headers and a Retry-After header that is the decimal string
\* of the body's retry_after.
C11_RejectionShape ==
    (response.evaluated /\ ~response.result.allowed)
    => /\ ~response.called_next
       /\ response.status = 429
       /\ DOMAIN response.body = {"detail", "message", "retry_after"}
       /\ response.body.detail = "Rate limit exceeded"
       /\ response.body.message = "Too many requests. Please try again later."
       /\ response.body.retry_after =
              Min(response.result.reset_time_minute,
                  response.result.reset_time_hour) - response.sent_at
       /\ DOMAIN response.headers = RateLimitHeaderNames \cup {"Retry-After"}
       /\ \A h \in RateLimitHeaderNames :
              response.headers[h] = AddRateLimitHeaders(response.result)[h]
       /\ response.headers["Retry-After"] = IntToStr(response.body.retry_after)

\* a rejection for the hour limit, inside the minute limit
C11_Witness ==
    /\ response.evaluated /\ ~response.result.allowed
    /\ response.status = 429
    /\ response.result.minute_count <= response.result.minute_limit
    /\ response.body.retry_after >= 1
    /\ response.headers["Retry-After"] = IntToStr(response.body.retry_after)

\* C12 (the claim as stated): every request to a path outside the skip list
\* that reaches the application leaves the middleware with all six
\* X-RateLimit-* headers on its response.
C12_AllowedGetsSixHeaders ==
    (/\ response.called_next
     /\ ~ShouldSkipRateLimiting(response.rq.path))
    => RateLimitHeaderNames \subseteq DOMAIN response.headers

\* the items of table whose key is a prefix of path
C13_Prefixes(table, path) ==
    {i \in 1..Len(table) : StartsWith(path, table[i].path)}

C14_IdentityOrder ==
    ret # None =>
        ret[1] = IF args.user_id # None
                 THEN S_user \o IntToStr(args.user_id[1])
                 ELSE IF args.forwarded_for \notin {None, Some(<<>>)}
                 THEN S_ip \o Strip(FirstField(args.forwarded_for[1]))
                 ELSE IF args.client_host # None
                 THEN S_ip \o args.client_host[1]
                 ELSE S_ip \o S_unknown

\* C15 (the claim as stated): no setting of the repository declares a trusted
\* proxy, so two requests without a user id from the same peer get the same
\* identifier whatever their X-Forwarded-For headers.
C15_ForwardedForNotTrusted ==
    (ret # None /\ args.user_id = None) =>
        \A other \in IdentifyInputs :
            (other.user_id = None /\ other.client_host = args.client_host)
            => GetClientIdentifier(other) = ret[1]

\* the Redis key an increment recorded in issued went to
C16_KeyOf(k) ==
    RateLimitKey(GetClientIdentifier(Request(k[1][1], k[1][2], k[1][3], k[2])),
                 k[2], IF k[3] = "minute" THEN S_minute ELSE S_hour, k[4])

\* C16: with the store reachable no increment is lost, however dispatches
\* interleave: a stored counter equals the number of increments issued
\* for its key, and the dispatches in progress that incremented the same
\* minute key hold different values, each between 1 and the stored counter.
C16_NoLostUpdate ==
    StoreReliable =>
        /\ \A k \in DOMAIN issued :
               C16_KeyOf(k) \in DOMAIN store
                   => store[C16_KeyOf(k)].count = issued[k]
        /\ \A f \in inflight :
               LET key == MinuteKey(f.client_id, f.rq.path, f.current_time)
               IN  /\ f.minute_count >= 1
                   /\ key \in DOMAIN store
                          => f.minute_count <= store[key].count
                   /\ \A g \in inflight :
                          (/\ g # f
                           /\ MinuteKey(g.client_id, g.rq.path, g.current_time)
                                  = key)
                          => g.minute_count # f.minute_count

\* two dispatches in progress between their two increments, on the same
\* minute key: they hold 1 and 2 and the stored counter is 2
C16_Witness ==
    /\ StoreReliable
    /\ \E f, g \in inflight :
           /\ f.pc = "hour" /\ g.pc = "hour"
           /\ MinuteKey(f.client_id, f.rq.path, f.current_time)
                  = MinuteKey(g.client_id, g.rq.path, g.current_time)
           /\ f.minute_count = 1 /\ g.minute_count = 2
           /\ store[MinuteKey(f.client_id, f.rq.path, f.current_time)].count = 2

\* C17 (the claim as stated): an increment that fails because the store is
\* unreachable is reported to the evaluation as an outcome of its own, never
\* as the count 0, and never as an exception that leaves dispatch; so no
\* request evaluated while the store was unreachable throughout has a minute
\* count of 0.
C17_FailureIsNotZero ==
    /\ ~response.escaped
    /\ (response.evaluated /\ ~response.saw_up)
           => response.result.minute_count # 0

\* C18 (the claim as stated): bypassing is not permanent: once a rate-limited
\* request has arrived while the store is reachable, the middleware is no
\* longer without a client.
C18_BypassNotPermanent ==
    ~(redis_client = "None" /\ redis_up /\ probed)

\* C19 (the claim as stated): every response a client receives from the
\* application with the stack of setup_middleware carries an X-Request-ID
\* header, the 429 rejections of the rate limiter included.
C19_EveryResponseHasRequestId ==
    (response.status # 0 /\ ~response.escaped) => response.request_id # None

\* C20 (the claim as stated): how a request is treated depends only on how
\* the most recent call to the store ended and on the store as the request
\* finds it, not on what happened before, at start-up included. A middleware
\* that holds a client counts a request that arrives while the store is
\* reachable after a failed call; so every request to a rate-limited path
\* that arrives while the store is reachable after a failed call is counted.
C20_LastCallDecides ==
    (/\ response.status # 0
     /\ ~ShouldSkipRateLimiting(response.rq.path)
     /\ response.prior_call = "failed"
     /\ response.up_at_arrival)
    => /\ response.evaluated
       /\ response.result.minute_count >= 1

\* a middleware that holds a client counts a request that arrives while the
\* store is reachable, after a call that failed
C20_CountedAfterFailure ==
    /\ redis_client = "Redis"
    /\ response.prior_call = "failed"
    /\ response.up_at_arrival
    /\ response.evaluated
    /\ response.result.minute_count >= 1

\* C21 (the claim as stated): of two requests of one caller to one path in one
\* minute window, the one evaluated later never observes a smaller
\* minute_count than the one evaluated earlier, store failures in between
\* included.
C21_CountsNeverDecrease ==
    \A f, g \in inflight :
        (/\ MinuteKey(f.client_id, f.rq.path, f.current_time)
                = MinuteKey(g.client_id, g.rq.path, g.current_time)
         /\ f.ordinal < g.ordinal)
        => f.minute_count <= g.minute_count

\* C22 (the claim as stated): no request is undercounted: every request to
\* a rate-limited path that has been answered, forwarded or rejected, and
\* that arrived while the store was reachable, has incremented its minute
\* counter.
C22_NoUndercount ==
    (/\ response.status # 0
     /\ ~ShouldSkipRateLimiting(response.rq.path)
     /\ response.up_at_arrival)
    => /\ response.evaluated
       /\ response.result.minute_count >= 1
       /\ Count(issued, <<Caller(response.rq), response.rq.path, "minute",
                          response.current_time \div SecondsPerMinute>>) >= 1

\* the entry of endpoint_limits a path's limits come from by prefix match
\* (0: the path equals an entry, or no entry is a prefix of it)
C23_Policy(path) ==
    IF \E i \in 1..Len(endpoint_limits) : endpoint_limits[i].path = path
    THEN 0
    ELSE PrefixMatch(endpoint_limits, path, 1)

\* C23 (the claim as stated): two requests of one client in one minute whose
\* paths resolve to the same policy by prefix match are counted against the
\* same minute counter and the same hour counter.
C23_OneCounterPerPolicy ==
    \A f, g \in inflight :
        (/\ f.client_id = g.client_id
         /\ f.current_time = g.current_time
         /\ C23_Policy(f.rq.path) # 0
         /\ C23_Policy(f.rq.path) = C23_Policy(g.rq.path))
        => /\ MinuteKey(f.client_id, f.rq.path, f.current_time)
                = MinuteKey(g.client_id, g.rq.path, g.current_time)
           /\ HourKey(f.client_id, f.rq.path, f.current_time)
                = HourKey(g.client_id, g.rq.path, g.current_time)

\* C24: every key in the store is a counter key of an increment that was
\* issued, and its expiry lies one window length (60 s for a minute key,
\* 3600 s for an hour key) after its last increment: the expiry is set with
\* every increment, in the same step, and no key is without one.
C24_ExpiryWithEveryIncrement ==
    \A key \in DOMAIN store :
        \E k \in DOMAIN issued :
            /\ key = C16_KeyOf(k)
            /\ store[key].incr_at <= now
            /\ store[key].expire_at
                   = store[key].incr_at
                       + (IF k[3] = "minute" THEN SecondsPerMinute
                          ELSE SecondsPerHour)

\* an hour key incremented again in a later minute than the one that
\* created it, its expiry counted from the later increment
C24_Witness ==
    \E k \in DOMAIN issued :
        /\ k[3] = "hour"
        /\ C16_KeyOf(k) \in DOMAIN store
        /\ store[C16_KeyOf(k)].count >= 2
        /\ store[C16_KeyOf(k)].incr_at = now
        /\ store[C16_KeyOf(k)].expire_at = now + SecondsPerHour
        /\ now > StartTime
        /\ Count(issued, <<k[1], k[2], "minute", StartTime \div SecondsPerMinute>>) >= 1
        /\ Count(issued, <<k[1], k[2], "minute", now \div SecondsPerMinute>>) = 1
        /\ now \div SecondsPerMinute > StartTime \div SecondsPerMinute
        /\ inflight = {}

\* C25: the reset times of an evaluation are the ends of the minute and of
\* the hour that contain its one clock reading, the reading whose minute and
\* hour index selected the counters the request incremented.
C25_ResetFromOneReading ==
    response.evaluated =>
        /\ response.result.reset_time_minute
               = (response.current_time \div SecondsPerMinute + 1) * SecondsPerMinute
        /\ response.result.reset_time_hour
               = (response.current_time \div SecondsPerHour + 1) * SecondsPerHour
        /\ Count(issued, <<Caller(response.rq), response.rq.path, "minute",
                           response.current_time \div SecondsPerMinute>>) >= 1
        /\ Count(issued, <<Caller(response.rq), response.rq.path, "hour",
                           response.current_time \div SecondsPerHour>>) >= 1
        /\ Count(issued, <<Caller(response.rq), response.rq.path, "hour",
                           response.current_time \div SecondsPerHour>>)
               >= response.hour_ordinal

\* a request whose hour increment and answer came after the clock had
\* passed into the next hour
C25_Witness ==
    /\ response.evaluated
    /\ response.status = 200
    /\ response.sent_at \div SecondsPerHour
           > response.current_time \div SecondsPerHour
    /\ response.result.reset_time_hour <= response.sent_at

\* C26 (the claim as stated): in every 429 response retry_after is an
\* integer from 1 to 60, also when the clock passes a minute boundary between
\* the evaluation and the construction of the response.
C26_RetryAfterPositive ==
    response.status = 429 =>
        /\ response.retry_after \in 1..SecondsPerMinute
        /\ response.body.retry_after \in 1..SecondsPerMinute

\* C27: the minute reset is never later than the hour reset, so the
\* retry_after of a rejection is the time from the response to the end of
\* the evaluated minute, also when only the hour limit is exceeded; and once
\* the increments of an hour exceed the hour limit every later request of
\* that caller and path in the hour is rejected, whatever minute it comes in.
C27_RetryAfterIsMinuteReset ==
    /\ response.evaluated
           => response.result.reset_time_minute <= response.result.reset_time_hour
    /\ response.status = 429
           => response.retry_after
                  = response.result.reset_time_minute - response.sent_at
    /\ (/\ response.evaluated
        /\ StoreReliable
        /\ response.hour_ordinal > response.result.hour_limit)
           => response.status = 429

\* the retry of a request that was rejected for the hour limit alone: it
\* arrives at the minute boundary the earlier retry_after pointed to, in the
\* same hour, is the first request of its minute, and is rejected
C27_Witness ==
    LET minute == response.current_time \div SecondsPerMinute
        earlier == Count(issued, <<Caller(response.rq), response.rq.path,
                                   "minute", minute - 1>>)
    IN  /\ response.status = 429
        /\ StoreReliable
        /\ response.current_time % SecondsPerMinute = 0
        /\ ((minute - 1) * SecondsPerMinute) \div SecondsPerHour
               = response.current_time \div SecondsPerHour
        /\ earlier >= 1
        /\ earlier <= response.result.minute_limit
        /\ response.result.minute_count <= response.result.minute_limit
        /\ response.result.hour_count > response.result.hour_limit + 1
        /\ response.retry_after
               = response.result.reset_time_minute - response.sent_at

\* C28: a rejected request has incremented both of its counters before the
\* decision: with the store reachable its minute_count and hour_count are
\* its ranks among all the increments issued for its keys, those of rejected
\* requests included, and the stored hour counter holds at least its
\* hour_count.
C28_RejectedAreCounted ==
    (response.status = 429 /\ StoreReliable)
    => /\ response.result.minute_count >= 1
       /\ response.result.hour_count >= 1
       /\ response.result.minute_count = response.ordinal
       /\ response.result.hour_count = response.hour_ordinal
       /\ HourKey(GetClientIdentifier(response.rq), response.rq.path,
                  response.current_time) \in DOMAIN store
       /\ store[HourKey(GetClientIdentifier(response.rq), response.rq.path,
                        response.current_time)].count
              >= response.result.hour_count

\* the second rejection in a row: the request before it was rejected for
\* the minute limit and still raised the minute and the hour counter
C28_Witness ==
    /\ response.status = 429 /\ StoreReliable
    /\ response.result.minute_count = response.result.minute_limit + 2
    /\ response.result.hour_count = response.result.minute_count
    /\ response.result.hour_count > response.result.hour_limit

\* C29 (the claim as stated): two requests that differ in client key or in
\* path never get the same counter key for the same window kind and index.
C29_KeyInjective ==
    (ret # None /\ DOMAIN args = {"a", "b", "kind"})
    => ((<<GetClientIdentifier(args.a), args.a.path>>
            # <<GetClientIdentifier(args.b), args.b.path>>)
        => ret[1][1] # ret[1][2])

\* the times of the calls of client c that returned True, in call order
C30_AllowedTimes(c) ==
    LET own == SelectSeq(calls, LAMBDA x : x.client_id = c /\ x.allowed)
    IN  [i \in 1..Len(own) |-> own[i].time]

\* the time of the latest call of client c
C30_LastCallTime(c) ==
    LET own == SelectSeq(calls, LAMBDA x : x.client_id = c)
    IN  own[Len(own)].time

\* C30: with limit and window fixed, at most limit calls of a client return
\* True in any interval of window seconds (open at its start, closed at its
\* end); and what is recorded for a client is exactly the times of its own
\* calls that returned True and lie within the window of its latest call:
\* a call that returns False records nothing, and a call for one client
\* leaves what is recorded for the others as it was.
C30_SlidingWindow ==
    DOMAIN args = {"limit", "window"} =>
        /\ \A i \in 1..Len(calls) :
               calls[i].allowed =>
                   Cardinality({j \in 1..Len(calls) :
                                   /\ calls[j].allowed
                                   /\ calls[j].client_id = calls[i].client_id
                                   /\ calls[j].time > calls[i].time - args.window
                                   /\ calls[j].time <= calls[i].time})
                       <= args.limit
        /\ DOMAIN requests = {calls[i].client_id : i \in 1..Len(calls)}
        /\ \A c \in DOMAIN requests :
               requests[c]
                   = CleanOld(C30_AllowedTimes(c),
                              C30_LastCallTime(c) - args.window)

\* a client at its limit is refused, and allowed again once the window has
\* moved past its recorded call, while another client has a call recorded
C30_Witness ==
    /\ DOMAIN args = {"limit", "window"}
    /\ args.limit >= 1
    /\ \E i, j, k \in 1..Len(calls) :
           /\ i < j /\ j < k
           /\ calls[i].client_id = calls[j].client_id
           /\ calls[j].client_id = calls[k].client_id
           /\ calls[i].allowed /\ ~calls[j].allowed /\ calls[k].allowed
           /\ k = Len(calls)
           /\ \E c \in DOMAIN requests :
                  c # calls[k].client_id /\ Len(requests[c]) >= 1

====
